---- MODULE Spec2Model ----
(***************************************************************************)
(* The mode/state controller of the eta mail client (src/src/app.rs), its  *)
(* event queue and the SQLite/SMTP message provider (src/src/message.rs).  *)
(*                                                                         *)
(* Text is a sequence of one-character strings; a TextArea is a sequence   *)
(* of lines with a cursor.  The line feed is the symbol NL.                *)
(***************************************************************************)
EXTENDS Integers, Sequences, FiniteSets, Bags, TLC

\* ------------------------------------------------------------------ bounds
\* events waiting in the channel that the producers may add to
MaxQueue == 2
\* body fetches spawned and not yet completed, in a run that browses
MaxFetches == 2
\* renderings in the detail text area, in a run that browses
MaxDetail == 2
\* body fetches in flight and renderings in the detail text area, in a run
\* that composes
MaxSide == 1
\* sends spawned and not yet completed
MaxSends == 1
\* characters of the To buffer, in a run that types an address and sends
MaxTo == 3
\* characters (line feeds included) in the three compose buffers and in the
\* messages of the sends not yet completed, together, in a run that edits
MaxEdit == 1
\* the same, in a run that types soft tabs into the body
MaxTab == 5
\* events waiting in the channel in the runs that press keys ahead of the
\* loop: S and two keys behind it
MaxAhead == 3

\* ------------------------------------------------------------ text helpers
NL == "\n"

None == <<>>
Some(i) == <<i>>

Min(a, b) == IF a < b THEN a ELSE b

\* Vec<String>::join("\n")
RECURSIVE Join(_)
Join(ls) ==
    IF Len(ls) = 0 THEN <<>>
    ELSE IF Len(ls) = 1 THEN ls[1]
    ELSE ls[1] \o <<NL>> \o Join(Tail(ls))

\* usize::saturating_sub(1)
SaturatingSub1(n) == IF n = 0 THEN 0 ELSE n - 1

\* ------------------------------------------------------------- tui_textarea
\* TextArea::default(): one empty line, cursor at (0, 0).  row is 1-based
\* here, col counts the characters left of the cursor.
TextAreaDefault == [lines |-> << <<>> >>, row |-> 1, col |-> 0]

ReplaceLines(ls, r, new) ==
    SubSeq(ls, 1, r - 1) \o new \o SubSeq(ls, r + 1, Len(ls))

InsertChar(ta, c) ==
    LET l == ta.lines[ta.row]
        nl == SubSeq(l, 1, ta.col) \o <<c>> \o SubSeq(l, ta.col + 1, Len(l))
    IN  [lines |-> ReplaceLines(ta.lines, ta.row, <<nl>>),
         row |-> ta.row, col |-> ta.col + 1]

InsertNewline(ta) ==
    LET l == ta.lines[ta.row]
    IN  [lines |-> ReplaceLines(ta.lines, ta.row,
                       <<SubSeq(l, 1, ta.col), SubSeq(l, ta.col + 1, Len(l))>>),
         row |-> ta.row + 1, col |-> 0]

RECURSIVE InsertSpaces(_, _)
InsertSpaces(ta, n) ==
    IF n = 0 THEN ta ELSE InsertSpaces(InsertChar(ta, " "), n - 1)

\* soft tab: spaces up to the next multiple of the tab length (4)
InsertTab(ta) == InsertSpaces(ta, 4 - (ta.col % 4))

\* Backspace
DeleteChar(ta) ==
    LET l == ta.lines[ta.row]
    IN  IF ta.col > 0
        THEN [lines |-> ReplaceLines(ta.lines, ta.row,
                            <<SubSeq(l, 1, ta.col - 1) \o SubSeq(l, ta.col + 1, Len(l))>>),
              row |-> ta.row, col |-> ta.col - 1]
        ELSE IF ta.row > 1
        THEN [lines |-> SubSeq(ta.lines, 1, ta.row - 2)
                            \o <<ta.lines[ta.row - 1] \o l>>
                            \o SubSeq(ta.lines, ta.row + 1, Len(ta.lines)),
              row |-> ta.row - 1, col |-> Len(ta.lines[ta.row - 1])]
        ELSE ta

\* CursorMove::Up / CursorMove::Down
MoveCursorUp(ta) ==
    IF ta.row > 1
    THEN [ta EXCEPT !.row = ta.row - 1, !.col = Min(ta.col, Len(ta.lines[ta.row - 1]))]
    ELSE ta

MoveCursorDown(ta) ==
    IF ta.row < Len(ta.lines)
    THEN [ta EXCEPT !.row = ta.row + 1, !.col = Min(ta.col, Len(ta.lines[ta.row + 1]))]
    ELSE ta

\* the characters of a text area, line feeds included
TextSize(ta) == Len(Join(ta.lines))


\* ------------------------------------------------------------------- keys
KeyOf(code) == [code |-> code, ctrl |-> FALSE]
CtrlC == [code |-> "c", ctrl |-> TRUE]

\* KeyCode::Char(_)
CharCodes == {"c", "j", "k", "q", "h", "l", "S", "@"}

\* ------------------------------------------------------------------ modes
Normal == [kind |-> "Normal"]
Success == [kind |-> "Success"]
Failed(reason) == [kind |-> "Failed", reason |-> reason]
MessageSent(status) == [kind |-> "MessageSent", status |-> status]
MessageTable(sub) == [kind |-> "MessageTable", sub |-> sub]
MessageMode(i) == [kind |-> "Message", index |-> i]
Compose(focus, cmode) == [kind |-> "Compose", focus |-> focus, cmode |-> cmode]

\* ----------------------------------------------------------------- events
Tick == [type |-> "Tick"]
Crossterm(key) == [type |-> "Key", key |-> key]
App(ev) == [type |-> "App", app |-> ev]

MessagesLoaded(ms) == [kind |-> "MessagesLoaded", messages |-> ms]
MessageBodyLoaded(id, body) == [kind |-> "MessageBodyLoaded", id |-> id, body |-> body]
MessageSentEvent(status) == [kind |-> "MessageSent", status |-> status]
SendMessage == [kind |-> "SendMessage"]
Quit == [kind |-> "Quit"]
Error(msg) == [kind |-> "Error", message |-> msg]

\* --------------------------------------------------------------- messages
Message(id, from, to, subject, body) ==
    [id |-> id, from |-> from, to |-> to, subject |-> subject, body |-> body]

\* Message::default()
MessageDefault == Message(0, <<>>, <<>>, <<>>, <<>>)

\* the rows seed_messages inserts
SeedRows ==
    << Message(1, <<"alice@example.com">>, <<"bob@example.com">>,
               <<"Hello there">>, <<"body1">>),
       Message(2, <<"alice@example.com">>, <<"bob@example.com">>,
               <<"Meeting reminder">>, <<"body2">>),
       Message(3, <<"eve@example.com">>, <<"bob@example.com">>,
               <<"Important Notice: System Maintenance">>, <<"body3">>),
       Message(4, <<"sarah@example.com">>, <<"bob@example.com">>,
               <<"Reminder: Submit Your Timesheets by EOD">>, <<"body4">>) >>

VARIABLES
    pc,                     \* position of App::run
    running,
    needs_render,
    events,                 \* the unbounded channel of EventHandler
    mode,
    message_table_state,    \* TableState::selected()
    compose_message_input,
    compose_to_input,
    compose_subject_input,
    message_textarea,       \* content of the detail text area
    current_message,
    loaded_messages,
    db,                     \* the messages table of messages.db, in id order
    tasks,                  \* bag of spawned provider tasks not yet completed
    scenario,               \* the keyboard and the bounds of this run
    counter,                \* the counter demo of src/src/main.rs: App.counter
    counter_running,        \* its App.running
    counter_pc              \* position of its App::run

\* the state of the counter demo, a program of its own
demo == <<counter, counter_running, counter_pc>>

\* the state of the mail client
eta == <<pc, running, needs_render, events, mode, message_table_state,
         compose_message_input, compose_to_input, compose_subject_input,
         message_textarea, current_message, loaded_messages, db, tasks,
         scenario>>

vars == <<eta, demo>>

\* u8::MAX and u8::MIN
U8_MAX == 255
U8_MIN == 0

\* App::new() of the counter demo: the derived Default
CounterNew ==
    /\ counter = 0
    /\ counter_running = FALSE
    /\ counter_pc = "new"

compose_inputs == <<compose_to_input, compose_subject_input, compose_message_input>>

\* a messages table whose ids are not 1..n: the first and the last of the
\* seeded rows were deleted
GapRows == SubSeq(SeedRows, 2, 3)

\* the messages table found at start: absent or empty, left by an earlier
\* run (the seeded rows), holding a single row, or holding ids with a gap
InitialDbs == {<<>>, SeedRows, SubSeq(SeedRows, 1, 1), GapRows}

\* The key events the input source delivers.  A run draws its keys from one
\* keyboard, and each keyboard comes with the bounds of its runs and the
\* messages tables they start from: one to browse the table and read, one to
\* type an address and send, one to edit, one to type soft tabs.
BrowseKeys ==
    {KeyOf(c) : c \in {"Enter", "Esc", "Up", "Down", "Left", "j", "k", "q"}}
        \cup {CtrlC}

SendKeys == {KeyOf(c) : c \in {"c", "Enter", "@", "S", "Down"}}

EditKeys ==
    {KeyOf(c) : c \in {"c", "q", "Enter", "Esc", "Tab", "S"}} \cup {CtrlC}

TabKeys == {KeyOf(c) : c \in {"c", "Enter", "Tab"}}

AheadKeys == {KeyOf(c) : c \in {"c", "Tab", "Enter", "S"}}

Scenarios ==
    { [keys |-> BrowseKeys, queue |-> MaxQueue, fetches |-> MaxFetches,
       detail |-> MaxDetail, text |-> 0, other |-> 0, dbs |-> InitialDbs],
      [keys |-> SendKeys, queue |-> MaxQueue, fetches |-> MaxSide,
       detail |-> MaxSide, text |-> MaxTo, other |-> 0, dbs |-> {<<>>, SeedRows}],
      [keys |-> EditKeys, queue |-> MaxQueue, fetches |-> MaxSide,
       detail |-> MaxSide, text |-> MaxEdit, other |-> MaxEdit,
       dbs |-> {<<>>, SeedRows}],
      [keys |-> TabKeys, queue |-> MaxQueue, fetches |-> MaxSide,
       detail |-> MaxSide, text |-> MaxTab, other |-> MaxTab,
       dbs |-> {SeedRows}],
      [keys |-> AheadKeys, queue |-> MaxAhead, fetches |-> MaxSide,
       detail |-> MaxSide, text |-> MaxEdit, other |-> MaxEdit,
       dbs |-> {SeedRows}] }

\* App::default()
Init ==
    /\ pc = "init"
    /\ running = TRUE
    /\ needs_render = TRUE
    /\ events = <<>>
    /\ mode = MessageTable(Normal)
    /\ message_table_state = Some(0)
    /\ compose_message_input = TextAreaDefault
    /\ compose_to_input = TextAreaDefault
    /\ compose_subject_input = TextAreaDefault
    /\ message_textarea = <<>>
    /\ current_message = MessageDefault
    /\ loaded_messages = <<>>
    /\ tasks = EmptyBag
    /\ scenario \in Scenarios
    /\ db \in scenario.dbs
    /\ CounterNew

Spawn(t) == tasks (+) SetToBag({t})
Complete(t) == tasks (-) SetToBag({t})
InFlight(kind) == {t \in BagToSet(tasks) : t.kind = kind}

RECURSIVE BagSize(_, _)
BagSize(bag, ts) ==
    IF ts = {} THEN 0
    ELSE LET t == CHOOSE x \in ts : TRUE
         IN  bag[t] + BagSize(bag, ts \ {t})

\* the bounds of the model on the spawned tasks
CanSpawn(kind) ==
    BagSize(tasks, InFlight(kind)) < (IF kind = "send_message" THEN MaxSends ELSE scenario.fetches)

RECURSIVE SentText(_)
SentText(ts) ==
    IF ts = {} THEN 0
    ELSE LET t == CHOOSE x \in ts : TRUE
         IN  tasks[t] * (Len(t.message.to) + Len(t.message.subject) + Len(t.message.body))
                 + SentText(ts \ {t})

\* the bounds of the model on the text typed and not yet sent off: a is the
\* To buffer, b and c the other two
FitsBounds(a, b, c) ==
    /\ TextSize(a) + TextSize(b) + TextSize(c) + SentText(InFlight("send_message"))
           <= scenario.text
    /\ TextSize(b) + TextSize(c) <= scenario.other

\* ---------------------------------------------------- App (src/src/app.rs)
\* Each operator is one method of App; q is the channel after the event
\* being handled was received.

quit_keeps_running(q) ==
    /\ running' = running
    /\ events' = q
    /\ UNCHANGED <<mode, message_table_state, compose_inputs, message_textarea,
                   current_message, loaded_messages, tasks>>

quit(q) ==
    /\ running' = FALSE
    /\ events' = q
    /\ UNCHANGED <<mode, message_table_state, compose_inputs, message_textarea,
                   current_message, loaded_messages, tasks>>

view_message_mode_holds_id(q) ==
    IF message_table_state # None
    THEN LET id == message_table_state[1]
             message_id == id + 1
         IN  /\ CanSpawn("get_message")
             /\ message_textarea' = <<>>
             /\ tasks' = Spawn([kind |-> "get_message", id |-> message_id])
             /\ mode' = MessageMode(message_id)
             /\ needs_render' = TRUE
             /\ events' = q
             /\ UNCHANGED <<running, message_table_state, compose_inputs,
                            current_message, loaded_messages>>
    ELSE /\ events' = q
         /\ UNCHANGED <<running, mode, message_table_state, compose_inputs,
                        message_textarea, current_message, loaded_messages, tasks>>

view_message(q) ==
    IF message_table_state # None
    THEN LET id == message_table_state[1]
             message_id == id + 1
         IN  /\ CanSpawn("get_message")
             /\ message_textarea' = <<>>
             /\ tasks' = Spawn([kind |-> "get_message", id |-> message_id])
             /\ mode' = MessageMode(id)
             /\ needs_render' = TRUE
             /\ events' = q
             /\ UNCHANGED <<running, message_table_state, compose_inputs,
                            current_message, loaded_messages>>
    ELSE /\ events' = q
         /\ UNCHANGED <<running, mode, message_table_state, compose_inputs,
                        message_textarea, current_message, loaded_messages, tasks>>

next_index_off_by_one(selected, len) ==
    IF selected # None
    THEN IF selected[1] > SaturatingSub1(len) THEN 0 ELSE selected[1] + 1
    ELSE 0

next_index(selected, len) ==
    IF selected # None
    THEN IF selected[1] >= SaturatingSub1(len) THEN 0 ELSE selected[1] + 1
    ELSE 0

next_message_keeps_mode(q) ==
    /\ message_table_state' = Some(next_index(message_table_state, Len(loaded_messages)))
    /\ needs_render' = TRUE
    /\ events' = q
    /\ UNCHANGED <<running, mode, compose_inputs, message_textarea, current_message,
                   loaded_messages, tasks>>

next_message(q) ==
    /\ message_table_state' = Some(next_index(message_table_state, Len(loaded_messages)))
    /\ mode' = MessageTable(Normal)
    /\ needs_render' = TRUE
    /\ events' = q
    /\ UNCHANGED <<running, compose_inputs, message_textarea, current_message,
                   loaded_messages, tasks>>

previous_index_no_wrap(selected, len) ==
    IF selected # None
    THEN IF selected[1] = 0 THEN 0 ELSE selected[1] - 1
    ELSE 0

previous_index(selected, len) ==
    IF selected # None
    THEN IF selected[1] = 0 THEN SaturatingSub1(len) ELSE selected[1] - 1
    ELSE 0

previous_message(q) ==
    /\ message_table_state' = Some(previous_index(message_table_state, Len(loaded_messages)))
    /\ mode' = MessageTable(Normal)
    /\ events' = q
    /\ UNCHANGED <<running, compose_inputs, message_textarea, current_message,
                   loaded_messages, tasks>>

compose_message(q) ==
    /\ mode' = Compose("To", "Normal")
    /\ events' = q
    /\ UNCHANGED <<running, message_table_state, compose_inputs, message_textarea,
                   current_message, loaded_messages, tasks>>

composed_message_first_line ==
    [MessageDefault EXCEPT !.to = compose_to_input.lines[1],
                           !.subject = compose_subject_input.lines[1],
                           !.body = compose_message_input.lines[1]]

\* the Message send_message builds from the compose buffers
composed_message ==
    [MessageDefault EXCEPT !.to = compose_to_input.lines[1],
                           !.subject = compose_subject_input.lines[1],
                           !.body = Join(compose_message_input.lines)]

send_message_keeps_draft(q) ==
    /\ CanSpawn("send_message")
    /\ tasks' = Spawn([kind |-> "send_message", message |-> composed_message])
    /\ mode' = MessageTable(Normal)
    /\ events' = q
    /\ UNCHANGED <<running, message_table_state, compose_inputs, message_textarea,
                   current_message, loaded_messages>>

send_message(q) ==
    /\ CanSpawn("send_message")
    /\ tasks' = Spawn([kind |-> "send_message", message |-> composed_message])
    /\ compose_to_input' = TextAreaDefault
    /\ compose_subject_input' = TextAreaDefault
    /\ compose_message_input' = TextAreaDefault
    /\ mode' = MessageTable(Normal)
    /\ events' = q
    /\ UNCHANGED <<running, message_table_state, message_textarea, current_message,
                   loaded_messages>>

set_loaded_messages_keeps_selection(q, messages) ==
    /\ loaded_messages' = messages
    /\ events' = q
    /\ UNCHANGED <<running, mode, message_table_state, compose_inputs, message_textarea,
                   current_message, tasks>>

set_loaded_messages(q, messages) ==
    /\ loaded_messages' = messages
    /\ message_table_state' =
           IF Len(messages) > 0 /\ message_table_state = None
           THEN Some(0) ELSE message_table_state
    /\ events' = q
    /\ UNCHANGED <<running, mode, compose_inputs, message_textarea, current_message,
                   tasks>>

\* the first entry of the loaded list with this id, if any
RECURSIVE find_loaded(_, _)
find_loaded(ms, id) ==
    IF ms = <<>> THEN None
    ELSE IF Head(ms).id = id THEN Some(Head(ms))
    ELSE find_loaded(Tail(ms), id)

\* format!("From: {}\nTo: {}\nSubject: {}\n\n{}", ...)
format_message(m) ==
    <<"From: ">> \o m.from \o <<NL, "To: ">> \o m.to \o <<NL, "Subject: ">>
        \o m.subject \o <<NL, NL>> \o m.body

\* the number of renderings a text holds
RECURSIVE Renderings(_)
Renderings(text) ==
    IF text = <<>> THEN 0
    ELSE (IF Head(text) = "From: " THEN 1 ELSE 0) + Renderings(Tail(text))

new_current_message_attaches_body(id, body) ==
    IF id # current_message.id
    THEN IF find_loaded(loaded_messages, id) # None
         THEN [find_loaded(loaded_messages, id)[1] EXCEPT !.body = body]
         ELSE [current_message EXCEPT !.body = body]
    ELSE current_message

new_current_message(id, body) ==
    IF id # current_message.id /\ find_loaded(loaded_messages, id) # None
    THEN [find_loaded(loaded_messages, id)[1] EXCEPT !.body = body]
    ELSE current_message

set_current_message(q, id, body) ==
    /\ Renderings(message_textarea) < scenario.detail
    /\ current_message' = new_current_message(id, body)
    /\ mode' = IF message_table_state # None
               THEN MessageMode(message_table_state[1]) ELSE mode
    /\ message_textarea' = message_textarea \o format_message(current_message')
    /\ events' = q
    /\ UNCHANGED <<running, message_table_state, compose_inputs, loaded_messages,
                   tasks>>

set_message_sent_status_any_mode(q, status) ==
    LET sent_status == IF status # None THEN Failed(status[1]) ELSE Success
    IN  /\ mode' = MessageTable(MessageSent(sent_status))
        /\ events' = q
        /\ UNCHANGED <<running, message_table_state, compose_inputs, message_textarea,
                       current_message, loaded_messages, tasks>>

set_message_sent_status(q, status) ==
    LET sent_status == IF status # None THEN Failed(status[1]) ELSE Success
        app_mode == MessageTable(MessageSent(sent_status))
    IN  /\ mode' = IF mode.kind = "MessageTable" THEN app_mode ELSE mode
        /\ events' = q
        /\ UNCHANGED <<running, message_table_state, compose_inputs, message_textarea,
                       current_message, loaded_messages, tasks>>

\* TextArea::input_without_shortcuts
input_without_shortcuts(ta, key) ==
    IF key.code \in CharCodes /\ ~key.ctrl THEN InsertChar(ta, key.code)
    ELSE IF key.code = "Tab" /\ ~key.ctrl THEN InsertTab(ta)
    ELSE IF key.code = "Backspace" THEN DeleteChar(ta)
    ELSE IF key.code = "Enter" THEN InsertNewline(ta)
    ELSE ta

\* TextArea::scroll(HalfPageUp | HalfPageDown): the viewport moves and the
\* cursor is pulled into it; how far depends on the size of the terminal.
scroll(ta, dir) ==
    {[ta EXCEPT !.row = r, !.col = Min(ta.col, Len(ta.lines[r]))] :
        r \in IF dir = "Up" THEN 1..ta.row ELSE ta.row..Len(ta.lines)}

\* the arms of handle_key_events
set_mode(q, m) ==
    /\ mode' = m
    /\ events' = q
    /\ UNCHANGED <<running, message_table_state, compose_inputs, message_textarea,
                   current_message, loaded_messages, tasks>>

no_op(q) ==
    /\ events' = q
    /\ UNCHANGED <<running, mode, message_table_state, compose_inputs,
                   message_textarea, current_message, loaded_messages, tasks>>

send(q, ev) ==
    /\ events' = Append(q, App(ev))
    /\ UNCHANGED <<running, mode, message_table_state, compose_inputs,
                   message_textarea, current_message, loaded_messages, tasks>>

set_to_input(q, ta) ==
    /\ FitsBounds(ta, compose_subject_input, compose_message_input)
    /\ compose_to_input' = ta
    /\ events' = q
    /\ UNCHANGED <<running, mode, message_table_state, compose_subject_input,
                   compose_message_input, message_textarea, current_message,
                   loaded_messages, tasks>>

set_subject_input(q, ta) ==
    /\ FitsBounds(compose_to_input, ta, compose_message_input)
    /\ compose_subject_input' = ta
    /\ events' = q
    /\ UNCHANGED <<running, mode, message_table_state, compose_to_input,
                   compose_message_input, message_textarea, current_message,
                   loaded_messages, tasks>>

set_message_input(q, ta) ==
    /\ FitsBounds(compose_to_input, compose_subject_input, ta)
    /\ compose_message_input' = ta
    /\ events' = q
    /\ UNCHANGED <<running, mode, message_table_state, compose_to_input,
                   compose_subject_input, message_textarea, current_message,
                   loaded_messages, tasks>>

key_message_table_esc_quits(q, code) ==
    IF code = "Enter" THEN view_message(q)
    ELSE IF code = "c" THEN compose_message(q)
    ELSE IF code \in {"j", "Down"} THEN next_message(q)
    ELSE IF code \in {"k", "Up"} THEN previous_message(q)
    ELSE IF code \in {"q", "Esc"} THEN send(q, Quit)
    ELSE no_op(q)

key_message_table(q, code) ==
    IF code = "Enter" THEN view_message(q)
    ELSE IF code = "c" THEN compose_message(q)
    ELSE IF code \in {"j", "Down"} THEN next_message(q)
    ELSE IF code \in {"k", "Up"} THEN previous_message(q)
    ELSE IF code = "q" THEN send(q, Quit)
    ELSE no_op(q)

key_message_q_quits(q, code) ==
    IF code = "Esc" THEN set_mode(q, MessageTable(Normal))
    ELSE IF code = "q" THEN send(q, Quit)
    ELSE no_op(q)

\* the scroll keys only move the viewport of the detail text area
key_message(q, code) ==
    IF code \in {"Esc", "q"} THEN set_mode(q, MessageTable(Normal))
    ELSE no_op(q)

key_compose_to_enter_inserts(q, key) ==
    IF mode.cmode = "Normal"
    THEN IF key.code \in {"Esc", "q"} THEN set_mode(q, MessageTable(Normal))
         ELSE IF key.code = "Enter" THEN set_mode(q, Compose("To", "Editing"))
         ELSE IF key.code = "Tab" THEN set_mode(q, Compose("Subject", "Normal"))
         ELSE no_op(q)
    ELSE IF key.code = "Esc" THEN set_mode(q, Compose("To", "Normal"))
         ELSE IF key.code = "Tab" THEN set_mode(q, Compose("Subject", "Normal"))
         ELSE set_to_input(q, input_without_shortcuts(compose_to_input, key))

key_compose_to_q_quits(q, key) ==
    IF mode.cmode = "Normal"
    THEN IF key.code \in {"Esc", "q"} THEN set_mode(q, MessageTable(Normal))
         ELSE IF key.code = "Enter" THEN set_mode(q, Compose("To", "Editing"))
         ELSE IF key.code = "Tab" THEN set_mode(q, Compose("Subject", "Normal"))
         ELSE no_op(q)
    ELSE IF key.code = "Esc" THEN set_mode(q, Compose("To", "Normal"))
         ELSE IF key.code \in {"Enter", "Tab"} THEN set_mode(q, Compose("Subject", "Normal"))
         ELSE IF key.code = "q" THEN send(q, Quit)
         ELSE set_to_input(q, input_without_shortcuts(compose_to_input, key))

key_compose_to(q, key) ==
    IF mode.cmode = "Normal"
    THEN IF key.code \in {"Esc", "q"} THEN set_mode(q, MessageTable(Normal))
         ELSE IF key.code = "Enter" THEN set_mode(q, Compose("To", "Editing"))
         ELSE IF key.code = "Tab" THEN set_mode(q, Compose("Subject", "Normal"))
         ELSE no_op(q)
    ELSE IF key.code = "Esc" THEN set_mode(q, Compose("To", "Normal"))
         ELSE IF key.code \in {"Enter", "Tab"} THEN set_mode(q, Compose("Subject", "Normal"))
         ELSE set_to_input(q, input_without_shortcuts(compose_to_input, key))

key_compose_subject_esc_leaves(q, key) ==
    IF mode.cmode = "Normal"
    THEN IF key.code \in {"Esc", "q"} THEN set_mode(q, MessageTable(Normal))
         ELSE IF key.code = "Enter" THEN set_mode(q, Compose("Subject", "Editing"))
         ELSE IF key.code = "Tab" THEN set_mode(q, Compose("Message", "Normal"))
         ELSE no_op(q)
    ELSE IF key.code = "Esc" THEN set_mode(q, MessageTable(Normal))
         ELSE IF key.code \in {"Enter", "Tab"} THEN set_mode(q, Compose("Message", "Normal"))
         ELSE set_subject_input(q, input_without_shortcuts(compose_subject_input, key))

key_compose_subject_skips_body(q, key) ==
    IF mode.cmode = "Normal"
    THEN IF key.code \in {"Esc", "q"} THEN set_mode(q, MessageTable(Normal))
         ELSE IF key.code = "Enter" THEN set_mode(q, Compose("Subject", "Editing"))
         ELSE IF key.code = "Tab" THEN set_mode(q, Compose("To", "Normal"))
         ELSE no_op(q)
    ELSE IF key.code = "Esc" THEN set_mode(q, Compose("Subject", "Normal"))
         ELSE IF key.code \in {"Enter", "Tab"} THEN set_mode(q, Compose("Message", "Normal"))
         ELSE set_subject_input(q, input_without_shortcuts(compose_subject_input, key))

key_compose_subject(q, key) ==
    IF mode.cmode = "Normal"
    THEN IF key.code \in {"Esc", "q"} THEN set_mode(q, MessageTable(Normal))
         ELSE IF key.code = "Enter" THEN set_mode(q, Compose("Subject", "Editing"))
         ELSE IF key.code = "Tab" THEN set_mode(q, Compose("Message", "Normal"))
         ELSE no_op(q)
    ELSE IF key.code = "Esc" THEN set_mode(q, Compose("Subject", "Normal"))
         ELSE IF key.code \in {"Enter", "Tab"} THEN set_mode(q, Compose("Message", "Normal"))
         ELSE set_subject_input(q, input_without_shortcuts(compose_subject_input, key))

key_compose_message(q, key) ==
    IF mode.cmode = "Normal"
    THEN IF key.code \in {"Esc", "q"} THEN set_mode(q, MessageTable(Normal))
         ELSE IF key.code = "S" THEN send(q, SendMessage)
         ELSE IF key.code = "Enter" THEN set_mode(q, Compose("Message", "Editing"))
         ELSE IF key.code = "Tab" THEN set_mode(q, Compose("To", "Normal"))
         ELSE IF key.code \in {"Up", "Down"}
              THEN \E ta \in scroll(compose_message_input, key.code) :
                       set_message_input(q, ta)
         ELSE no_op(q)
    ELSE IF key.code = "Esc" THEN set_mode(q, Compose("Message", "Normal"))
         ELSE IF key.code = "Up" THEN set_message_input(q, MoveCursorUp(compose_message_input))
         ELSE IF key.code = "Down" THEN set_message_input(q, MoveCursorDown(compose_message_input))
         ELSE set_message_input(q, input_without_shortcuts(compose_message_input, key))

handle_key_events_no_override(q, key) ==
    /\ needs_render' = TRUE
    /\ IF mode.kind = "MessageTable" THEN key_message_table(q, key.code)
       ELSE IF mode.kind = "Message" THEN key_message(q, key.code)
       ELSE IF mode.focus = "To" THEN key_compose_to(q, key)
       ELSE IF mode.focus = "Subject" THEN key_compose_subject(q, key)
       ELSE key_compose_message(q, key)

handle_key_events(q, key) ==
    IF key.ctrl /\ key.code = "c"
    THEN send(q, Quit) /\ UNCHANGED needs_render
    ELSE /\ needs_render' = TRUE
         /\ IF mode.kind = "MessageTable" THEN key_message_table(q, key.code)
            ELSE IF mode.kind = "Message" THEN key_message(q, key.code)
            ELSE IF mode.focus = "To" THEN key_compose_to(q, key)
            ELSE IF mode.focus = "Subject" THEN key_compose_subject(q, key)
            ELSE key_compose_message(q, key)

\* ------------------------------- SqliteMessageProvider (src/src/message.rs)
init_db_always_seeds(rows) == SeedRows

\* init: the schema is created if missing and an empty table is seeded
init_db(rows) == IF Len(rows) # 0 THEN rows ELSE SeedRows

list_rows_first_only(rows) ==
    [i \in 1..Min(1, Len(rows)) |-> [rows[i] EXCEPT !.body = <<>>]]

\* SELECT id, from_addr, to_addr, subject FROM messages ORDER BY id
list_rows(rows) == [i \in 1..Len(rows) |-> [rows[i] EXCEPT !.body = <<>>]]

\* SELECT body FROM messages WHERE id = ?
body_rows(rows, id) == {rows[i].body : i \in {j \in 1..Len(rows) : rows[j].id = id}}

\* lettre's parse of the To line: user@domain, nothing else in the model's alphabet
valid_address(to) ==
    /\ Len(to) >= 3
    /\ Cardinality({i \in 1..Len(to) : to[i] = "@"}) = 1
    /\ to[1] # "@"
    /\ to[Len(to)] # "@"
    /\ \A i \in 1..Len(to) : to[i] \notin {" ", NL}

Live == pc \in {"init", "top", "recv"}

\* the tokio task of get_messages completes
GetMessagesLoaded ==
    /\ Live
    /\ Len(events) < scenario.queue
    /\ [kind |-> "get_messages"] \in BagToSet(tasks)
    /\ tasks' = Complete([kind |-> "get_messages"])
    /\ events' = Append(events, App(MessagesLoaded(list_rows(db))))
    /\ UNCHANGED <<pc, running, needs_render, mode, message_table_state, compose_inputs,
                   message_textarea, current_message, loaded_messages, db>>
    /\ UNCHANGED <<scenario, demo>>

GetMessagesError ==
    /\ Live
    /\ Len(events) < scenario.queue
    /\ [kind |-> "get_messages"] \in BagToSet(tasks)
    /\ tasks' = Complete([kind |-> "get_messages"])
    /\ events' = Append(events, App(Error(<<"database error">>)))
    /\ UNCHANGED <<pc, running, needs_render, mode, message_table_state, compose_inputs,
                   message_textarea, current_message, loaded_messages, db>>
    /\ UNCHANGED <<scenario, demo>>

\* the tokio task of get_message completes with the row's body
GetMessageLoaded ==
    /\ Live
    /\ Len(events) < scenario.queue
    /\ \E t \in BagToSet(tasks) :
        /\ t.kind = "get_message"
        /\ \E body \in body_rows(db, t.id) :
            /\ tasks' = Complete(t)
            /\ events' = Append(events, App(MessageBodyLoaded(t.id, body)))
    /\ UNCHANGED <<pc, running, needs_render, mode, message_table_state, compose_inputs,
                   message_textarea, current_message, loaded_messages, db>>
    /\ UNCHANGED <<scenario, demo>>

\* fetch_one fails: no row with that id, or the database fails
GetMessageError ==
    /\ Live
    /\ Len(events) < scenario.queue
    /\ \E t \in BagToSet(tasks) :
        /\ t.kind = "get_message"
        /\ tasks' = Complete(t)
        /\ events' = Append(events, App(Error(
               IF body_rows(db, t.id) = {} THEN <<"no rows returned">>
               ELSE <<"database error">>)))
    /\ UNCHANGED <<pc, running, needs_render, mode, message_table_state, compose_inputs,
                   message_textarea, current_message, loaded_messages, db>>
    /\ UNCHANGED <<scenario, demo>>

\* the tokio task of send_message: the mailer's answer becomes MessageSent
SendMessageDone ==
    /\ Live
    /\ Len(events) < scenario.queue
    /\ \E t \in BagToSet(tasks) :
        /\ t.kind = "send_message"
        /\ valid_address(t.message.to)
        /\ \E status \in {None, Some(<<"smtp error">>)} :
            /\ tasks' = Complete(t)
            /\ events' = Append(events, App(MessageSentEvent(status)))
    /\ UNCHANGED <<pc, running, needs_render, mode, message_table_state, compose_inputs,
                   message_textarea, current_message, loaded_messages, db>>
    /\ UNCHANGED <<scenario, demo>>

\* message.to().parse().unwrap() panics: the task ends without an event
SendMessagePanic ==
    /\ Live
    /\ \E t \in BagToSet(tasks) :
        /\ t.kind = "send_message"
        /\ ~valid_address(t.message.to)
        /\ tasks' = Complete(t)
    /\ UNCHANGED <<pc, running, needs_render, events, mode, message_table_state,
                   compose_inputs, message_textarea, current_message, loaded_messages, db>>
    /\ UNCHANGED <<scenario, demo>>

\* ------------------------------------------------------- the event sources
KeyPress ==
    /\ Live
    /\ Len(events) < scenario.queue
    /\ \E key \in scenario.keys : events' = Append(events, Crossterm(key))
    /\ UNCHANGED <<pc, running, needs_render, mode, message_table_state, compose_inputs,
                   message_textarea, current_message, loaded_messages, db, tasks>>
    /\ UNCHANGED <<scenario, demo>>

TickArrives ==
    /\ Live
    /\ Len(events) < scenario.queue
    /\ events' = Append(events, Tick)
    /\ UNCHANGED <<pc, running, needs_render, mode, message_table_state, compose_inputs,
                   message_textarea, current_message, loaded_messages, db, tasks>>
    /\ UNCHANGED <<scenario, demo>>

\* ------------------------------------------------------------- App::run
\* self.messages.init().await? succeeds, then get_messages() is spawned
RunInit ==
    /\ pc = "init"
    /\ db' = init_db(db)
    /\ tasks' = Spawn([kind |-> "get_messages"])
    /\ pc' = "top"
    /\ UNCHANGED <<running, needs_render, events, mode, message_table_state,
                   compose_inputs, message_textarea, current_message, loaded_messages>>
    /\ UNCHANGED <<scenario, demo>>

RunInitError_requests_list ==
    /\ pc = "init"
    /\ pc' = "aborted"
    /\ tasks' = Spawn([kind |-> "get_messages"])
    /\ UNCHANGED <<running, needs_render, events, mode, message_table_state,
                   compose_inputs, message_textarea, current_message, loaded_messages,
                   db>>
    /\ UNCHANGED <<scenario, demo>>

\* init fails: run returns the error
RunInitError ==
    /\ pc = "init"
    /\ pc' = "aborted"
    /\ UNCHANGED <<running, needs_render, events, mode, message_table_state,
                   compose_inputs, message_textarea, current_message, loaded_messages,
                   db, tasks>>
    /\ UNCHANGED <<scenario, demo>>

\* the stateful render of the table pulls a selection past the last row back
\* (to no selection when there are no rows)
table_render_selected(selected, len) ==
    IF selected # None /\ selected[1] >= len
    THEN IF len = 0 THEN None ELSE Some(len - 1)
    ELSE selected

\* while self.running { if self.needs_render { terminal.draw(..) } ..
\* The table is rendered in MessageTable mode; on a terminal too small to
\* give the table an area the render returns before touching the selection.
Draw_clears_flag ==
    /\ pc = "top"
    /\ running
    /\ pc' = "recv"
    /\ message_table_state' \in
           IF needs_render /\ mode.kind = "MessageTable"
           THEN {message_table_state,
                 table_render_selected(message_table_state, Len(loaded_messages))}
           ELSE {message_table_state}
    /\ needs_render' = FALSE
    /\ UNCHANGED <<running, events, mode, compose_inputs,
                   message_textarea, current_message, loaded_messages, db, tasks>>
    /\ UNCHANGED <<scenario, demo>>

Draw ==
    /\ pc = "top"
    /\ running
    /\ pc' = "recv"
    /\ message_table_state' \in
           IF needs_render /\ mode.kind = "MessageTable"
           THEN {message_table_state,
                 table_render_selected(message_table_state, Len(loaded_messages))}
           ELSE {message_table_state}
    /\ UNCHANGED <<running, needs_render, events, mode, compose_inputs,
                   message_textarea, current_message, loaded_messages, db, tasks>>
    /\ UNCHANGED <<scenario, demo>>

\* the loop condition fails: run returns Ok(())
RunExit ==
    /\ pc = "top"
    /\ ~running
    /\ pc' = "done"
    /\ UNCHANGED <<running, needs_render, events, mode, message_table_state,
                   compose_inputs, message_textarea, current_message, loaded_messages,
                   db, tasks>>
    /\ UNCHANGED <<scenario, demo>>

Receiving(type) == pc = "recv" /\ events # <<>> /\ Head(events).type = type

ReceivingApp(kind) == Receiving("App") /\ Head(events).app.kind = kind

\* Event::Tick => self.tick()
HandleTick ==
    /\ Receiving("Tick")
    /\ events' = Tail(events)
    /\ pc' = "top"
    /\ UNCHANGED <<running, needs_render, mode, message_table_state, compose_inputs,
                   message_textarea, current_message, loaded_messages, db, tasks>>
    /\ UNCHANGED <<scenario, demo>>

HandleKey ==
    /\ Receiving("Key")
    /\ handle_key_events(Tail(events), Head(events).key)
    /\ pc' = "top"
    /\ UNCHANGED db
    /\ UNCHANGED <<scenario, demo>>

HandleMessagesLoaded ==
    /\ ReceivingApp("MessagesLoaded")
    /\ needs_render' = TRUE
    /\ set_loaded_messages(Tail(events), Head(events).app.messages)
    /\ pc' = "top"
    /\ UNCHANGED db
    /\ UNCHANGED <<scenario, demo>>

HandleMessageBodyLoaded ==
    /\ ReceivingApp("MessageBodyLoaded")
    /\ needs_render' = TRUE
    /\ set_current_message(Tail(events), Head(events).app.id, Head(events).app.body)
    /\ pc' = "top"
    /\ UNCHANGED db
    /\ UNCHANGED <<scenario, demo>>

HandleMessageSent ==
    /\ ReceivingApp("MessageSent")
    /\ needs_render' = TRUE
    /\ set_message_sent_status(Tail(events), Head(events).app.status)
    /\ pc' = "top"
    /\ UNCHANGED db
    /\ UNCHANGED <<scenario, demo>>

HandleSendMessage ==
    /\ ReceivingApp("SendMessage")
    /\ needs_render' = TRUE
    /\ send_message(Tail(events))
    /\ pc' = "top"
    /\ UNCHANGED db
    /\ UNCHANGED <<scenario, demo>>

HandleQuit ==
    /\ ReceivingApp("Quit")
    /\ needs_render' = TRUE
    /\ quit(Tail(events))
    /\ pc' = "top"
    /\ UNCHANGED db
    /\ UNCHANGED <<scenario, demo>>

\* show_error returns Err and the ? of run returns it: the loop is left
show_error(q) ==
    /\ pc' = "failed"
    /\ events' = q
    /\ UNCHANGED <<running, mode, message_table_state, compose_inputs, message_textarea,
                   current_message, loaded_messages, tasks>>

HandleError ==
    /\ ReceivingApp("Error")
    /\ needs_render' = TRUE
    /\ show_error(Tail(events))
    /\ UNCHANGED db
    /\ UNCHANGED <<scenario, demo>>

Next ==
    \/ RunInit
    \/ RunInitError
    \/ Draw
    \/ RunExit
    \/ KeyPress
    \/ TickArrives
    \/ GetMessagesLoaded
    \/ GetMessagesError
    \/ GetMessageLoaded
    \/ GetMessageError
    \/ SendMessageDone
    \/ SendMessagePanic
    \/ HandleTick
    \/ HandleKey
    \/ HandleMessagesLoaded
    \/ HandleMessageBodyLoaded
    \/ HandleMessageSent
    \/ HandleSendMessage
    \/ HandleQuit
    \/ HandleError

Spec == Init /\ [][Next]_vars

\* ---------------------------------------------------------- counter demo
\* The key events the demo is given: modifiers and code.
CounterKeys ==
    {KeyOf(c) : c \in {"Left", "Right", "Esc", "q", "c", "x"}} \cup {CtrlC}

\* u8 addition and subtraction: the results the builds can produce.  Out of
\* range, a build with overflow checks panics and one without them wraps.
add_u8(a, b) ==
    IF a + b <= U8_MAX THEN {[ok |-> TRUE, value |-> a + b]}
    ELSE {[ok |-> FALSE, value |-> a], [ok |-> TRUE, value |-> (a + b) % (U8_MAX + 1)]}

sub_u8(a, b) ==
    IF a - b >= U8_MIN THEN {[ok |-> TRUE, value |-> a - b]}
    ELSE {[ok |-> FALSE, value |-> a], [ok |-> TRUE, value |-> (a - b) % (U8_MAX + 1)]}

\* the step of the caller after an operation that may panic
counter_op(outcomes) ==
    \E r \in outcomes :
        /\ counter' = r.value
        /\ counter_pc' = IF r.ok THEN "loop" ELSE "panicked"

increment_counter_unguarded ==
    /\ counter_op(add_u8(counter, 1))
    /\ UNCHANGED counter_running

increment_counter ==
    /\ IF counter < U8_MAX
       THEN counter_op(add_u8(counter, 1))
       ELSE UNCHANGED <<counter, counter_pc>>
    /\ UNCHANGED counter_running

decrement_counter ==
    /\ IF counter > U8_MIN
       THEN counter_op(sub_u8(counter, 1))
       ELSE UNCHANGED <<counter, counter_pc>>
    /\ UNCHANGED counter_running

exit ==
    /\ counter_running' = FALSE
    /\ UNCHANGED <<counter, counter_pc>>

handle_key_event(key) ==
    IF key.code \in {"Esc", "q"} \/ (key.ctrl /\ key.code \in {"c", "C"}) THEN exit
    ELSE IF key.code = "Left" THEN decrement_counter
    ELSE IF key.code = "Right" THEN increment_counter
    ELSE UNCHANGED demo

\* run: self.running = true, then the loop
CounterRun ==
    /\ counter_pc = "new"
    /\ counter_pc' = "loop"
    /\ counter_running' = TRUE
    /\ UNCHANGED counter
    /\ UNCHANGED eta

\* handle_events reads a key press and passes it to handle_key_event
CounterKeyEvent ==
    /\ counter_pc = "loop"
    /\ counter_running
    /\ \E key \in CounterKeys : handle_key_event(key)
    /\ UNCHANGED eta

\* the loop condition fails: run returns Ok(())
CounterReturn ==
    /\ counter_pc = "loop"
    /\ ~counter_running
    /\ counter_pc' = "returned"
    /\ UNCHANGED <<counter, counter_running>>
    /\ UNCHANGED eta

\* the demo is started beside a mail client that has only been constructed
CounterInit ==
    /\ Init
    /\ scenario.keys = BrowseKeys
    /\ db = <<>>

CounterNext ==
    \/ CounterRun
    \/ CounterKeyEvent
    \/ CounterReturn

CounterSpec == CounterInit /\ [][CounterNext]_vars

\* ------------------------------------------------------------- properties
\* the loop takes the event at the head of the channel and handles it
Handled(type) == Receiving(type) /\ pc' # "recv"
HandledApp(kind) == ReceivingApp(kind) /\ pc' # "recv"
HandledKey(codes) ==
    /\ Handled("Key")
    /\ ~Head(events).key.ctrl
    /\ Head(events).key.code \in codes

Range(f) == {f[i] : i \in DOMAIN f}
EmptyInput(ta) == ta.lines = << <<>> >>

\* C1: in every mode a Ctrl-C key event enqueues Quit behind what is already
\* queued and changes nothing else; handling Quit clears the running flag;
\* once the flag is clear the loop draws and handles nothing more and only
\* returns.
C1_CtrlCQuits ==
    [][ /\ (Handled("Key") /\ Head(events).key = CtrlC) =>
              /\ events' = Append(Tail(events), [type |-> "App", app |-> [kind |-> "Quit"]])
              /\ pc' = "top"
        /\ HandledApp("Quit") => (running' = FALSE /\ pc' = "top")
        /\ ~running =>
              /\ running' = FALSE
              /\ pc \in {"top", "done"}
              /\ pc' \in {pc, "done"}
              /\ mode' = mode
      ]_vars

\* Ctrl-C arrived while a compose field was being edited, and run returned
C1_Witness == pc = "done" /\ mode.kind = "Compose" /\ mode.cmode = "Editing"

\* C2: once the loop is entered it is left only with the running flag
\* cleared, which only the handling of Quit does.
C2_OnlyQuitEndsLoop == pc \in {"done", "failed"} => ~running

\* C3: handling an Error event leaves the controller in its loop, running.
C3_ErrorKeepsRunning ==
    [][HandledApp("Error") => (pc' = "top" /\ running')]_vars

\* C4: a MessageBodyLoaded handled after the user left the detail view
\* (the mode is MessageTable or Compose) does not change the mode.
C4_StaleBodyKeepsMode ==
    [][(HandledApp("MessageBodyLoaded") /\ mode.kind # "Message") => mode' = mode]_vars

\* C5: handling MessageSent(status) in MessageTable mode (any status) makes
\* the mode MessageTable(MessageSent(Success)) for None and
\* MessageTable(MessageSent(Failed(reason))) for Some(reason); in Message and
\* Compose mode the mode is unchanged.
C5_MessageSentStatus ==
    [][HandledApp("MessageSent") =>
          LET status == Head(events).app.status
          IN  /\ pc' = "top"
              /\ (mode.kind = "MessageTable" /\ status = <<>>) =>
                     mode' = [kind |-> "MessageTable",
                              sub |-> [kind |-> "MessageSent",
                                       status |-> [kind |-> "Success"]]]
              /\ (mode.kind = "MessageTable" /\ status # <<>>) =>
                     mode' = [kind |-> "MessageTable",
                              sub |-> [kind |-> "MessageSent",
                                       status |-> [kind |-> "Failed",
                                                   reason |-> status[1]]]]
              /\ mode.kind \in {"Message", "Compose"} => mode' = mode
      ]_vars

\* a failed send is shown in the table
C5_Witness ==
    /\ mode.kind = "MessageTable"
    /\ mode.sub.kind = "MessageSent"
    /\ mode.sub.status.kind = "Failed"

\* C6: right after SendMessage is handled the three compose buffers are
\* empty and the mode is MessageTable(Normal), whatever becomes of the send;
\* the MessageSent that comes later does not touch the buffers.
C6_SendClearsDraft ==
    [][ /\ HandledApp("SendMessage") =>
              /\ EmptyInput(compose_to_input')
              /\ EmptyInput(compose_subject_input')
              /\ EmptyInput(compose_message_input')
              /\ mode' = [kind |-> "MessageTable", sub |-> [kind |-> "Normal"]]
        /\ HandledApp("MessageSent") => UNCHANGED compose_inputs
      ]_vars

\* a typed draft was sent off: the send is in flight, the buffers are empty
C6_Witness ==
    /\ \E t \in InFlight("send_message") : t.message.to # <<>>
    /\ EmptyInput(compose_to_input)
    /\ EmptyInput(compose_subject_input)
    /\ EmptyInput(compose_message_input)
    /\ mode = MessageTable(Normal)

\* all lines of a text area, each line after the first behind a line feed
RECURSIVE FullContent(_, _)
FullContent(lines, n) ==
    IF n = 0 THEN <<>>
    ELSE IF n = 1 THEN lines[1]
    ELSE FullContent(lines, n - 1) \o <<NL>> \o lines[n]

\* C7: the message handed to the store's send when SendMessage is handled
\* has To = first line of the to buffer, Subject = first line of the subject
\* buffer and Body = the full content of the body buffer, as they are then.
C7_SentMessageIsDraft ==
    [][HandledApp("SendMessage") =>
          \E t \in BagToSet(tasks') :
              /\ t.kind = "send_message"
              /\ tasks' = tasks (+) SetToBag({t})
              /\ t.message.to = Head(compose_to_input.lines)
              /\ t.message.subject = Head(compose_subject_input.lines)
              /\ t.message.body = FullContent(compose_message_input.lines,
                                              Len(compose_message_input.lines))
      ]_vars

\* a body of more than one line was handed to the store
C7_Witness == \E t \in InFlight("send_message") : NL \in Range(t.message.body)

\* C8: when a send succeeds the store holds the message under a fresh id,
\* greater than every id it held before.
C8_SentIsStored ==
    [][\A t \in InFlight("send_message") :
          (/\ tasks' = Complete(t)
           /\ events' = Append(events, App(MessageSentEvent(None))))
          => \E i \in 1..Len(db') :
                 /\ db'[i].to = t.message.to
                 /\ db'[i].subject = t.message.subject
                 /\ db'[i].body = t.message.body
                 /\ \A j \in 1..Len(db) : db'[i].id > db[j].id
      ]_vars

\* C9: with N messages loaded and row i in 0..N-1 selected, next selects 0
\* when i = N-1 and i+1 otherwise, previous selects N-1 when i = 0 and i-1
\* otherwise, and the result is in 0..N-1; with no message loaded both
\* select row 0.
C9_NextPrevious ==
    [][LET N == Len(loaded_messages)
           sel == message_table_state
           InRange == sel # <<>> /\ sel[1] \in 0..(N - 1)
       IN  /\ (HandledKey({"j", "Down"}) /\ mode.kind = "MessageTable") =>
                 /\ InRange =>
                        /\ message_table_state' = <<IF sel[1] = N - 1 THEN 0 ELSE sel[1] + 1>>
                        /\ message_table_state'[1] \in 0..(N - 1)
                 /\ N = 0 => message_table_state' = <<0>>
           /\ (HandledKey({"k", "Up"}) /\ mode.kind = "MessageTable") =>
                 /\ InRange =>
                        /\ message_table_state' = <<IF sel[1] = 0 THEN N - 1 ELSE sel[1] - 1>>
                        /\ message_table_state'[1] \in 0..(N - 1)
                 /\ N = 0 => message_table_state' = <<0>>
      ]_vars

\* the last of the seeded rows is selected
C9_Witness == Len(loaded_messages) = Len(SeedRows) /\ message_table_state = <<Len(SeedRows) - 1>>

\* C10: with a non-empty list and a row in 0..N-1 selected, next followed by
\* previous, and previous followed by next, select the starting row again.
C10_RoundTrip ==
    LET N == Len(loaded_messages)
        sel == message_table_state
    IN  (N > 0 /\ sel # <<>> /\ sel[1] \in 0..(N - 1)) =>
            /\ previous_index(<<next_index(sel, N)>>, N) = sel[1]
            /\ next_index(<<previous_index(sel, N)>>, N) = sel[1]

\* a row between the ends of the seeded list, and the only row of a list of one
C10_Witness ==
    /\ mode = MessageTable(Normal)
    /\ \/ Len(loaded_messages) = Len(SeedRows) /\ message_table_state = <<1>>
       \/ Len(loaded_messages) = 1 /\ message_table_state = <<0>>

\* C11: the table selection is None while loaded_messages is empty and an
\* index in 0..len-1 otherwise, in every state from construction on.
C11_SelectionInRange ==
    IF loaded_messages = <<>>
    THEN message_table_state = None
    ELSE /\ message_table_state # None
         /\ message_table_state[1] \in 0..(Len(loaded_messages) - 1)

\* C12: Enter in MessageTable mode while the loaded list is empty or no row
\* is selected requests no body fetch and leaves the mode MessageTable.
C12_EnterOnEmptyIsNoOp ==
    [][(/\ HandledKey({"Enter"})
        /\ mode.kind = "MessageTable"
        /\ (loaded_messages = <<>> \/ message_table_state = None))
       => (tasks' = tasks /\ mode'.kind = "MessageTable")]_vars

\* C13: Enter on a selected row of the loaded list spawns the body fetch for
\* the id of the message at that row.
C13_FetchIsForSelectedRow ==
    [][(/\ HandledKey({"Enter"})
        /\ mode.kind = "MessageTable"
        /\ message_table_state # None
        /\ message_table_state[1] < Len(loaded_messages))
       => tasks' = tasks (+) SetToBag({[kind |-> "get_message",
                       id |-> loaded_messages[message_table_state[1] + 1].id]})
      ]_vars

\* C14: the mode becomes Message only in the step that handles a
\* MessageBodyLoaded event.
C14_ModeWaitsForBody ==
    [][(mode.kind # "Message" /\ mode'.kind = "Message")
       => HandledApp("MessageBodyLoaded")]_vars

\* a text k times over
RECURSIVE Repeat(_, _)
Repeat(text, k) == IF k = 0 THEN <<>> ELSE text \o Repeat(text, k - 1)

\* C15: whenever the mode is Message(i) for a row i of the loaded list and
\* the detail buffer is not empty, current_message is the message at row i
\* (with its body attached) and the detail buffer holds renderings of it only.
C15_DetailShowsSelected ==
    (/\ mode.kind = "Message"
     /\ mode.index < Len(loaded_messages)
     /\ message_textarea # <<>>)
    => LET m == loaded_messages[mode.index + 1]
       IN  /\ current_message = [m EXCEPT !.body = current_message.body]
           /\ message_textarea =
                  Repeat(format_message(current_message), Renderings(message_textarea))

\* C16: handling MessageBodyLoaded(id, body) with an id that no entry of
\* loaded_messages has leaves current_message unchanged and still makes the
\* mode Message(selected row) when a row is selected.
C16_UnknownIdKeepsCurrent ==
    [][(/\ HandledApp("MessageBodyLoaded")
        /\ \A i \in 1..Len(loaded_messages) :
               loaded_messages[i].id # Head(events).app.id)
       => /\ current_message' = current_message
          /\ message_table_state # None => mode' = MessageMode(message_table_state[1])
          /\ message_table_state = None => mode' = mode
      ]_vars

\* a body arrived before the list did: the detail view shows the default message
C16_Witness ==
    /\ mode.kind = "Message"
    /\ loaded_messages = <<>>
    /\ current_message = MessageDefault
    /\ message_textarea = format_message(MessageDefault)

\* C17: handling MessagesLoaded(list) makes loaded_messages that list; the
\* selection becomes 0 when there was none and the list is not empty, and is
\* unchanged in every other case.
C17_MessagesLoaded ==
    [][HandledApp("MessagesLoaded") =>
          LET list == Head(events).app.messages
          IN  /\ loaded_messages' = list
              /\ message_table_state' =
                     IF message_table_state = None /\ list # <<>>
                     THEN Some(0) ELSE message_table_state
      ]_vars

\* a list that is not empty is about to be handled while no row is selected
C17_Witness ==
    /\ ReceivingApp("MessagesLoaded")
    /\ Head(events).app.messages # <<>>
    /\ message_table_state = None

\* C18: every j/Down/k/Up handled in MessageTable mode leaves the mode
\* MessageTable(Normal), whatever send status the table showed before.
C18_NavigationClearsStatus ==
    [][(HandledKey({"j", "Down", "k", "Up"}) /\ mode.kind = "MessageTable")
       => mode' = MessageTable(Normal)]_vars

\* a navigation key is about to be handled while the table shows a send status
C18_Witness ==
    /\ Receiving("Key")
    /\ Head(events).key \in {KeyOf(c) : c \in {"j", "Down", "k", "Up"}}
    /\ mode.kind = "MessageTable"
    /\ mode.sub.kind = "MessageSent"

\* the field after this one in the cyclic order To, Subject, Body
NextFocus(focus) ==
    CASE focus = "To" -> "Subject"
      [] focus = "Subject" -> "Message"
      [] focus = "Message" -> "To"

\* C19: in Compose mode with the focused field in Navigating, Tab moves the
\* focus To -> Subject -> Body -> To, the new field being in Navigating.
C19_TabCycles ==
    [][(HandledKey({"Tab"}) /\ mode.kind = "Compose" /\ mode.cmode = "Normal")
       => mode' = Compose(NextFocus(mode.focus), "Normal")]_vars

\* Tab is about to be handled in Body/Navigating, where the cycle closes
C19_Witness ==
    /\ Receiving("Key")
    /\ Head(events).key = KeyOf("Tab")
    /\ mode = Compose("Message", "Normal")

\* C20 as the specification states it: in Editing, Enter or Tab advances the
\* focus like Tab in Navigating and inserts nothing, for all three fields.
C20_EditingEnterTabAdvances ==
    [][(HandledKey({"Enter", "Tab"}) /\ mode.kind = "Compose" /\ mode.cmode = "Editing")
       => /\ mode' = Compose(NextFocus(mode.focus), "Normal")
          /\ UNCHANGED compose_inputs
      ]_vars

\* C20, amended: in Editing, Enter or Tab advances the focus To -> Subject
\* and Subject -> Body (entered in Navigating) and inserts nothing; in the
\* Body field the focus stays in Body/Editing, Enter breaks the line at the
\* cursor and Tab inserts the spaces up to the next multiple of four columns.
C20_EditingEnterTabByField ==
    [][(HandledKey({"Enter", "Tab"}) /\ mode.kind = "Compose" /\ mode.cmode = "Editing")
       => LET ta == compose_message_input
              line == ta.lines[ta.row]
              pad == 4 - (ta.col % 4)
          IN  /\ mode.focus \in {"To", "Subject"} =>
                     /\ mode' = Compose(NextFocus(mode.focus), "Normal")
                     /\ UNCHANGED compose_inputs
              /\ mode.focus = "Message" =>
                     /\ mode' = mode
                     /\ UNCHANGED <<compose_to_input, compose_subject_input>>
                     /\ Head(events).key.code = "Enter" =>
                            /\ Len(compose_message_input'.lines) = Len(ta.lines) + 1
                            /\ compose_message_input'.lines[ta.row] = SubSeq(line, 1, ta.col)
                            /\ compose_message_input'.lines[ta.row + 1] =
                                   SubSeq(line, ta.col + 1, Len(line))
                     /\ Head(events).key.code = "Tab" =>
                            /\ Len(compose_message_input'.lines) = Len(ta.lines)
                            /\ compose_message_input'.lines[ta.row] =
                                   SubSeq(line, 1, ta.col)
                                       \o [i \in 1..pad |-> " "]
                                       \o SubSeq(line, ta.col + 1, Len(line))
      ]_vars

\* the body being edited holds a line break and the spaces of a soft tab
C20_Witness ==
    /\ mode = Compose("Message", "Editing")
    /\ Len(compose_message_input.lines) > 1
    /\ \E r \in 1..Len(compose_message_input.lines) :
           " " \in Range(compose_message_input.lines[r])

\* C21: when c in MessageTable mode starts a compose session the three
\* compose buffers are empty, whatever was typed in a session left before.
C21_ComposeStartsEmpty ==
    [][(HandledKey({"c"}) /\ mode.kind = "MessageTable")
       => /\ mode'.kind = "Compose"
          /\ EmptyInput(compose_to_input')
          /\ EmptyInput(compose_subject_input')
          /\ EmptyInput(compose_message_input')
      ]_vars

\* C22: in Compose mode with a field in Editing, Esc puts the same field in
\* Navigating and leaves the three compose buffers as they were.
C22_EscKeepsText ==
    [][(HandledKey({"Esc"}) /\ mode.kind = "Compose" /\ mode.cmode = "Editing")
       => /\ mode' = Compose(mode.focus, "Normal")
          /\ UNCHANGED compose_inputs
      ]_vars

\* text was typed into the body and its editing was left: only Esc does that
C22_Witness ==
    /\ mode = Compose("Message", "Normal")
    /\ ~EmptyInput(compose_message_input)

\* the keys the Message arm scrolls on
ScrollCodes == {"Up", "PageUp", "k", "Down", "PageDown", "j", "Left", "h", "Right", "l"}

\* C23: in Message mode Esc and q make the mode MessageTable(Normal) and
\* enqueue nothing; every scroll key leaves the mode, the selection,
\* loaded_messages and current_message unchanged.
C23_MessageModeKeys ==
    [][(Handled("Key") /\ ~Head(events).key.ctrl /\ mode.kind = "Message")
       => LET code == Head(events).key.code
          IN  /\ code \in {"Esc", "q"} =>
                     /\ mode' = MessageTable(Normal)
                     /\ events' = Tail(events)
                     /\ running' = running
              /\ code \in ScrollCodes =>
                     UNCHANGED <<mode, message_table_state, loaded_messages,
                                 current_message>>
      ]_vars

\* a scroll key is about to be handled while the detail view shows a message
C23_Witness ==
    /\ Receiving("Key")
    /\ Head(events).key = KeyOf("j")
    /\ mode.kind = "Message"
    /\ message_textarea # <<>>

\* the keys no arm of the current mode names
Unhandled(code) ==
    IF mode.kind = "MessageTable"
    THEN code \notin {"Enter", "c", "j", "Down", "k", "Up", "q"}
    ELSE IF mode.kind = "Message"
    THEN code \notin {"Esc", "q"} \cup ScrollCodes
    ELSE IF mode.cmode = "Editing" THEN FALSE
    ELSE IF mode.focus \in {"To", "Subject"}
    THEN code \notin {"Esc", "q", "Enter", "Tab"}
    ELSE code \notin {"Esc", "q", "S", "Enter", "Tab", "Up", "Down"}

\* C24: handling a key that the current mode does not name changes neither
\* the mode, the selection, the cached messages, the compose buffers nor the
\* event queue (the key itself leaves it), and the loop goes on.
C24_UnhandledKeyIsNoOp ==
    [][(Handled("Key") /\ ~Head(events).key.ctrl /\ Unhandled(Head(events).key.code))
       => /\ events' = Tail(events)
          /\ pc' = "top"
          /\ UNCHANGED <<running, mode, message_table_state, loaded_messages,
                         current_message, compose_inputs, message_textarea, tasks>>
      ]_vars

\* S is about to be handled in Subject/Navigating, where no arm names it
C24_Witness ==
    /\ Receiving("Key")
    /\ Head(events).key = KeyOf("S")
    /\ mode = Compose("Subject", "Normal")

\* C25: handling Ctrl-C enqueues Quit and leaves the mode, the selection,
\* the cached messages and the three compose buffers unchanged, in every mode.
C25_CtrlCBypassesDispatch ==
    [][(Handled("Key") /\ Head(events).key = CtrlC)
       => /\ events' = Append(Tail(events), App(Quit))
          /\ UNCHANGED <<mode, message_table_state, loaded_messages, current_message,
                         compose_inputs, message_textarea, tasks, running>>
      ]_vars

\* Quit is queued while a compose field is being edited: only Ctrl-C handled
\* in Compose mode leads there
C25_Witness ==
    /\ mode.kind = "Compose"
    /\ mode.cmode = "Editing"
    /\ events # <<>>
    /\ events[Len(events)] = App(Quit)

\* C26: a send task ends only by pushing one MessageSent event, whatever
\* the To line of its message is.
C26_SendAnswersOnce ==
    [][\A t \in InFlight("send_message") :
          tasks' = Complete(t)
          => /\ Len(events') = Len(events) + 1
             /\ events'[Len(events')].type = "App"
             /\ events'[Len(events')].app.kind = "MessageSent"
      ]_vars

\* the rows of a list event are all the stored rows, in ascending id order
AllRowsAscending(ms, rows) ==
    /\ Len(ms) = Len(rows)
    /\ \A i \in 1..Len(ms) :
           /\ ms[i].id = rows[i].id
           /\ ms[i].from = rows[i].from
           /\ ms[i].to = rows[i].to
           /\ ms[i].subject = rows[i].subject
    /\ \A i, j \in 1..Len(ms) : i < j => ms[i].id < ms[j].id

C28_QuitNotStranded ==
    (/\ InFlight("get_message") \cup InFlight("send_message") # {}
     /\ \E i \in 1..Len(events) : events[i] = App(Quit))
    => (pc \in {"top", "recv"} \/ ~running)

\* C29: no store request is issued and no event is handled before init has
\* succeeded; the list request is issued in the step in which init succeeds;
\* when init fails run returns at once and nothing happens afterwards.
C29_InitBeforeList ==
    [][ /\ pc = "init" =>
              /\ tasks = EmptyBag
              /\ loaded_messages = <<>>
              /\ mode = MessageTable(Normal)
        /\ (pc = "init" /\ pc' = "aborted") =>
              UNCHANGED <<tasks, db, events, running, mode, message_table_state,
                          loaded_messages, current_message, compose_inputs>>
        /\ pc = "aborted" => UNCHANGED vars
        /\ ([kind |-> "get_messages"] \in BagToSet(tasks')
               /\ [kind |-> "get_messages"] \notin BagToSet(tasks))
              => (pc = "init" /\ pc' = "top" /\ db' # <<>>)
      ]_vars

\* init failed while a key was already waiting in the channel
C29_Witness == pc = "aborted" /\ events # <<>> /\ tasks = EmptyBag

\* C30: init leaves a store that holds a message as it is and seeds a store
\* that holds none; a second init after it changes nothing.
C30_InitIdempotent ==
    [][(pc = "init" /\ pc' = "top")
       => /\ Len(db) > 0 => db' = db
          /\ Len(db) = 0 => db' = SeedRows
          /\ init_db(db') = db'
      ]_vars

\* init ran on a store that held ids with a gap and left it alone
C30_Witness == pc # "init" /\ pc # "aborted" /\ db = GapRows

C32_CounterInRange ==
    [][ /\ counter \in U8_MIN..U8_MAX
        /\ counter' \in U8_MIN..U8_MAX
        /\ counter_pc' # "panicked"
        /\ \A key \in CounterKeys :
               (counter_pc = "loop" /\ counter_running /\ handle_key_event(key)) =>
                   /\ key = KeyOf("Right") =>
                          counter' = IF counter = U8_MAX THEN counter ELSE counter + 1
                   /\ key = KeyOf("Left") =>
                          counter' = IF counter = U8_MIN THEN counter ELSE counter - 1
                   /\ key.code \notin {"Left", "Right"} => counter' = counter
        /\ counter_pc # "loop" => counter' = counter
      ]_vars

\* Right was pressed up to the largest value
C32_Witness == counter = U8_MAX /\ counter_pc = "loop" /\ counter_running

\* C33 as stated: whenever the mode is Message(i) the selected row is i, and
\* no step taken while the mode is Message or Compose changes the selection.
C33_ModeIndexIsSelection ==
    [][ /\ mode.kind = "Message" => message_table_state = Some(mode.index)
        /\ mode'.kind = "Message" => message_table_state' = Some(mode'.index)
        /\ mode.kind \in {"Message", "Compose"} => UNCHANGED message_table_state
      ]_vars

\* C33, amended: whenever the mode is Message(i) the selected row is i; no
\* step taken while the mode is Message changes the selection; while the
\* mode is Compose the selection changes only when MessagesLoaded is handled
\* with nothing selected, to the first row.
C33_SelectionFixedInDetail ==
    [][ /\ mode.kind = "Message" => message_table_state = Some(mode.index)
        /\ mode'.kind = "Message" => message_table_state' = Some(mode'.index)
        /\ mode.kind = "Message" => UNCHANGED message_table_state
        /\ (mode.kind = "Compose" /\ message_table_state' # message_table_state) =>
               /\ HandledApp("MessagesLoaded")
               /\ message_table_state = None
               /\ message_table_state' = Some(0)
      ]_vars

\* a non-empty list is about to be handled in Compose mode with nothing
\* selected
C33_Witness ==
    /\ ReceivingApp("MessagesLoaded")
    /\ Head(events).app.messages # <<>>
    /\ mode.kind = "Compose"
    /\ message_table_state = None

\* C34: while a SendMessage event waits in the channel no key event changes
\* the To, Subject or Body buffer, so the message that is sent is the draft
\* as it was when S was pressed.
C34_DraftFrozenAfterS ==
    [][(\E i \in 1..Len(events) : events[i] = App(SendMessage))
       => \/ UNCHANGED compose_inputs
          \/ HandledApp("SendMessage")
      ]_vars

\* C35: the store's send operation is invoked only while the mode is
\* Compose: a SendMessage event handled in another mode submits nothing.
C35_SendOnlyInCompose ==
    [][(HandledApp("SendMessage") /\ mode.kind # "Compose")
       => InFlight("send_message") = {} /\ UNCHANGED tasks
      ]_vars

\* C36: whenever the detail buffer is not empty it holds exactly one
\* rendering of current_message: From, To, Subject, a blank line, the body.
C36_OneRendering ==
    message_textarea # <<>> => message_textarea = format_message(current_message)

\* the buffer at the cursor of the focused compose field
FocusedInput(focus, inputs) ==
    IF focus = "To" THEN inputs[1] ELSE IF focus = "Subject" THEN inputs[2] ELSE inputs[3]

\* C37: a Quit event is added to the channel only by handling Ctrl-C or by
\* handling q in MessageTable mode; in Compose with a field in Editing, q is
\* inserted into that field's buffer as text and the mode stays.
C37_QuitOnlyFromCtrlCOrQ ==
    [][ /\ (/\ events' # events
            /\ \/ events' = Append(events, App(Quit))
               \/ events # <<>> /\ events' = Append(Tail(events), App(Quit)))
           => /\ Handled("Key")
              /\ \/ Head(events).key = CtrlC
                 \/ Head(events).key = KeyOf("q") /\ mode.kind = "MessageTable"
        /\ (HandledKey({"q"}) /\ mode.kind = "Compose" /\ mode.cmode = "Editing")
           => /\ mode' = mode
              /\ events' = Tail(events)
              /\ FocusedInput(mode.focus, compose_inputs') =
                     InsertChar(FocusedInput(mode.focus, compose_inputs), "q")
              /\ running' = running
      ]_vars

\* q was typed into the To line
C37_Witness ==
    /\ mode = Compose("To", "Editing")
    /\ compose_to_input.lines = << <<"q">> >>

====
